---- MODULE Spec2Model ----
(***************************************************************************)
(* go-next-gen-image: the magic-byte image type detector (imagetype.go)    *)
(* and the conversion pipeline of Converter.ToWebP / Converter.ToAVIF.     *)
(* Bytes are integers 0..255, a byte slice is a sequence of bytes, and      *)
(* the Go slice buf[lo:hi] is Slice(buf, lo, hi).                           *)
(***************************************************************************)
EXTENDS Integers, Sequences, FiniteSets, TLC

(***************************************************************************)
(* Bounds of the model.                                                    *)
(***************************************************************************)
\* longest modelled input beyond the 32-byte capture window: 32 + MaxExtra
MaxExtra == 4
\* longest stream handed to the reader entry points beyond 32 bytes
MaxStreamExtra == 2
\* longest buffer an export of the codec returns
MaxOutLen == 13

(***************************************************************************)
(* imagetype.go: constants                                                 *)
(***************************************************************************)
ImageTypeJPEG == "jpeg"
ImageTypePNG == "png"
ImageTypeGIF == "gif"
ImageTypeWebP == "webp"
ImageTypeAVIF == "avif"
ImageTypeUnknown == "unknown"

ImageTypes ==
  {ImageTypeJPEG, ImageTypePNG, ImageTypeGIF, ImageTypeWebP, ImageTypeAVIF,
   ImageTypeUnknown}

jpegMagic1 == <<255, 216, 255>>
pngMagic == <<137, 80, 78, 71, 13, 10, 26, 10>>
gifMagic1 == <<71, 73, 70, 56, 55, 97>>
gifMagic2 == <<71, 73, 70, 56, 57, 97>>
webpMagic == <<82, 73, 70, 70>>
webpType == <<87, 69, 66, 80>>
\* []byte("ftyp"), and the brands "avif", "avis" of isAVIF
ftypBox == <<102, 116, 121, 112>>
avifBrands == << <<97, 118, 105, 102>>, <<97, 118, 105, 115>> >>

\* buf := make([]byte, 32)
SniffBufLen == 32
\* if n < 12 { "file too small to determine type" }
MinSniffLen == 12

(***************************************************************************)
(* Go slices and package bytes                                             *)
(***************************************************************************)
Min(a, b) == IF a < b THEN a ELSE b

\* buf[lo:hi], 0-based, hi exclusive
Slice(buf, lo, hi) == SubSeq(buf, lo + 1, hi)

\* buf[lo:]
SliceFrom(buf, lo) == SubSeq(buf, lo + 1, Len(buf))

\* bytes.Equal
BytesEqual(a, b) == a = b

\* bytes.Index(s, sub) >= 0, scanning the offsets from the left
RECURSIVE IndexFrom(_, _, _)
IndexFrom(s, sub, i) ==
  IF i + Len(sub) > Len(s) THEN -1
  ELSE IF Slice(s, i, i + Len(sub)) = sub THEN i
  ELSE IndexFrom(s, sub, i + 1)

\* bytes.Contains
BytesContains(s, sub) == IndexFrom(s, sub, 0) >= 0

(***************************************************************************)
(* imagetype.go: isAVIF, detectFromBytes, DetectImageTypeFromBytes         *)
(***************************************************************************)
\* the loop over avifBrands comparing the major brand buf[8:12]
MajorBrandIsAVIF(buf) ==
  \E k \in 1..Len(avifBrands) : Slice(buf, 8, 12) = avifBrands[k]

\* a faulty scan that starts at the minor version, string(buf[12:])
CompatibleBrandsFromMinorVersion(buf) ==
  \/ BytesContains(SliceFrom(buf, 12), avifBrands[1])
  \/ BytesContains(SliceFrom(buf, 12), avifBrands[2])

\* the compatible-brand scan of string(buf[16:])
CompatibleBrandsHaveAVIF(buf) ==
  \/ BytesContains(SliceFrom(buf, 16), avifBrands[1])
  \/ BytesContains(SliceFrom(buf, 16), avifBrands[2])

isAVIF(buf) ==
  IF Len(buf) < 12 THEN FALSE
  ELSE IF ~BytesEqual(Slice(buf, 4, 8), ftypBox) THEN FALSE
  ELSE IF MajorBrandIsAVIF(buf) THEN TRUE
  ELSE IF Len(buf) >= 16 THEN CompatibleBrandsHaveAVIF(buf)
  ELSE FALSE

IsPNG(buf) == Len(buf) >= 8 /\ BytesEqual(Slice(buf, 0, 8), pngMagic)

\* a faulty JPEG check that compares two bytes only
IsJPEGTwoBytes(buf) == Len(buf) >= 2 /\ BytesEqual(Slice(buf, 0, 2), Slice(jpegMagic1, 0, 2))

IsJPEG(buf) == Len(buf) >= 3 /\ BytesEqual(Slice(buf, 0, 3), jpegMagic1)

\* a faulty GIF check that does not recognise GIF89a
IsGIF87Only(buf) == Len(buf) >= 6 /\ BytesEqual(Slice(buf, 0, 6), gifMagic1)

IsGIF(buf) ==
  /\ Len(buf) >= 6
  /\ \/ BytesEqual(Slice(buf, 0, 6), gifMagic1)
     \/ BytesEqual(Slice(buf, 0, 6), gifMagic2)

IsWebP(buf) ==
  /\ Len(buf) >= 12
  /\ BytesEqual(Slice(buf, 0, 4), webpMagic)
  /\ BytesEqual(Slice(buf, 8, 12), webpType)

\* a faulty detector that evaluates the AVIF check first
detectFromBytesAVIFFirst(buf) ==
  IF Len(buf) >= 12 /\ isAVIF(buf) THEN [type |-> ImageTypeAVIF, err |-> "nil"]
  ELSE IF IsPNG(buf) THEN [type |-> ImageTypePNG, err |-> "nil"]
  ELSE IF IsJPEG(buf) THEN [type |-> ImageTypeJPEG, err |-> "nil"]
  ELSE IF IsGIF(buf) THEN [type |-> ImageTypeGIF, err |-> "nil"]
  ELSE IF IsWebP(buf) THEN [type |-> ImageTypeWebP, err |-> "nil"]
  ELSE [type |-> ImageTypeUnknown, err |-> "nil"]

\* the (ImageType, error) pair; detectFromBytes never returns an error
detectFromBytes(buf) ==
  IF IsPNG(buf) THEN [type |-> ImageTypePNG, err |-> "nil"]
  ELSE IF IsJPEG(buf) THEN [type |-> ImageTypeJPEG, err |-> "nil"]
  ELSE IF IsGIF(buf) THEN [type |-> ImageTypeGIF, err |-> "nil"]
  ELSE IF IsWebP(buf) THEN [type |-> ImageTypeWebP, err |-> "nil"]
  ELSE IF Len(buf) >= 12 /\ isAVIF(buf) THEN [type |-> ImageTypeAVIF, err |-> "nil"]
  ELSE [type |-> ImageTypeUnknown, err |-> "nil"]

\* imgType, _ := detectFromBytes(data); return imgType
DetectImageTypeFromBytes(bytes) == detectFromBytes(bytes).type

\* a faulty IsSupported that takes WebP for a convertible source
IsSupportedWithWebP(t) == t \in {ImageTypeJPEG, ImageTypePNG, ImageTypeGIF, ImageTypeWebP}

\* ImageType.IsSupported
IsSupported(t) == t \in {ImageTypeJPEG, ImageTypePNG, ImageTypeGIF}

(***************************************************************************)
(* imagetype.go: DetectImageTypeFromReader, DetectImageType                *)
(***************************************************************************)
\* what io.ReadFull(r, buf) returns as err once its read loop has ended with
\* n bytes in buf and rd the error of the last Read: nil when buf is full,
\* io.ErrUnexpectedEOF when the stream ended after at least one byte
ReadFullErr(cnt, rd) ==
  IF cnt >= SniffBufLen THEN "nil"
  ELSE IF cnt > 0 /\ rd = "EOF" THEN "ErrUnexpectedEOF"
  ELSE rd

\* a faulty check that takes a short read for a hard failure
IsHardReadErrorAnyErr(err) == err # "nil"

\* err != nil && err != io.ErrUnexpectedEOF
IsHardReadError(err) == err # "nil" /\ err # "ErrUnexpectedEOF"

\* the body of DetectImageTypeFromReader after io.ReadFull has returned
\* (cnt, err) with captured the bytes of buf[:cnt]
SniffAfterRead(captured, cnt, err) ==
  IF IsHardReadError(err) THEN [type |-> ImageTypeUnknown, err |-> "read"]
  ELSE IF cnt < MinSniffLen THEN [type |-> ImageTypeUnknown, err |-> "small"]
  ELSE detectFromBytes(captured)

\* a faulty slice, one byte longer than the capture window
ReadBufLenOneMore(cnt) == SniffBufLen + 1 - cnt

\* len(p) of the call r.Read(buf[n:]) made by io.ReadFull
ReadBufLen(cnt) == SniffBufLen - cnt

Take(s, k) == SubSeq(s, 1, Min(k, Len(s)))

\* DetectImageTypeFromReader on a stream whose reads fail only at its end
DetectImageTypeFromReader(stream) ==
  LET cnt == Min(Len(stream), SniffBufLen)
      err == ReadFullErr(cnt, IF Len(stream) < SniffBufLen THEN "EOF" ELSE "nil")
  IN  SniffAfterRead(Take(stream, cnt), cnt, err)

\* DetectImageType: os.Open, then DetectImageTypeFromReader(file); io is what
\* the file system does: "ok", "openfail" or "readfail"
DetectImageType(io, content) ==
  IF io = "openfail" THEN [type |-> ImageTypeUnknown, err |-> "open"]
  ELSE IF io = "readfail" THEN SniffAfterRead(<<>>, 0, "io")
  ELSE DetectImageTypeFromReader(content)

(***************************************************************************)
(* Inputs: byte sequences assembled from 4-byte words                      *)
(***************************************************************************)
Zero4 == <<0, 0, 0, 0>>
BoxSize == <<0, 0, 0, 32>>
JpegHead == <<255, 216, 255, 224>>
Gif7aTail == <<55, 97, 1, 0>>
Gif9aTail == <<57, 97, 1, 0>>
Mif1 == <<109, 105, 102, 49>>
Avif == avifBrands[1]
Avis == avifBrands[2]

\* bytes 0..3, 4..7, 8..11, 12..15
Word0 == {webpMagic, Slice(pngMagic, 0, 4), Slice(gifMagic1, 0, 4), JpegHead, BoxSize}
Word1 == {ftypBox, Slice(pngMagic, 4, 8), Gif7aTail, Gif9aTail, Zero4}
Word2 == {webpType, Avif, Avis, Mif1}
Word3 == {Zero4, Avif}

\* bytes 16..31: no brand; a brand at 16; at the unaligned 17; at 28..31;
\* the first three bytes of a brand at 29..31
Tails ==
  { Zero4 \o Zero4 \o Zero4 \o Zero4,
    Avif \o Mif1 \o Zero4 \o Zero4,
    <<0>> \o Avis \o <<0, 0, 0>> \o Zero4 \o Zero4,
    Zero4 \o Zero4 \o Zero4 \o Avif,
    Zero4 \o Zero4 \o Zero4 \o <<0, 97, 118, 105>> }

\* the stream entry points run on fewer second inputs
StreamExtPatterns == { Zero4 \o Zero4 \o Zero4, <<102>> \o Zero4 \o Zero4 }

\* bytes from offset 32 on
ExtPatterns ==
  { Zero4 \o Zero4 \o Zero4,
    Avif \o Zero4 \o Zero4,
    <<102>> \o Zero4 \o Zero4,
    <<115, 0>> \o Avis \o Zero4 }

ShortInputs ==
  { Take(w0 \o w1 \o w2 \o w3, k) :
      <<w0, w1, w2, w3, k>> \in Word0 \X Word1 \X Word2 \X Word3 \X (0..16) }

LongBases ==
  { w0 \o w1 \o w2 \o Zero4 \o t :
      <<w0, w1, w2, t>> \in
        {webpMagic, JpegHead, BoxSize} \X {ftypBox, Zero4} \X {webpType, Avif, Mif1}
          \X Tails }

LongInputs ==
  { Take(b \o e, k) :
      <<b, e, k>> \in LongBases \X ExtPatterns \X (17..(SniffBufLen + MaxExtra)) }

Inputs == ShortInputs \cup LongInputs

\* the streams and files handed to the reader entry points
ZeroTail == Zero4 \o Zero4 \o Zero4 \o Zero4

Fixtures ==
  { w \o t \o <<102>> \o Zero4 \o Zero4 :
      <<w, t>> \in
        ({ JpegHead \o Zero4 \o Zero4 \o Zero4,
           pngMagic \o Zero4 \o Zero4,
           gifMagic1 \o <<1, 0>> \o Zero4 \o Zero4,
           gifMagic2 \o <<1, 0>> \o Zero4 \o Zero4,
           webpMagic \o Zero4 \o webpType \o Zero4,
           BoxSize \o ftypBox \o Avis \o Zero4,
           Zero4 \o Zero4 \o Zero4 \o Zero4 } \X {ZeroTail})
        \cup
        ({ BoxSize \o ftypBox \o Mif1 \o Zero4 }
           \X { ZeroTail,
                Avif \o Mif1 \o Zero4 \o Zero4,
                Zero4 \o Zero4 \o Zero4 \o <<0, 97, 118, 105>> }) }

Streams ==
  { Take(f, k) : <<f, k>> \in Fixtures \X (0..(SniffBufLen + MaxStreamExtra)) }

\* the inputs that agree with d on their first 32 bytes
SamePrefix(d, exts, extra) ==
  IF Len(d) < SniffBufLen THEN {d}
  ELSE { Take(Take(d, SniffBufLen) \o e, k) :
           <<e, k>> \in exts \X {SniffBufLen, SniffBufLen + extra} }

(***************************************************************************)
(* converter.go: FormatError, ConverterConfig, NewConverter                *)
(* An error is the chain of its layers, outermost first; errors.Unwrap     *)
(* drops the first layer.                                                  *)
(***************************************************************************)
Nil == <<>>

\* fmt.Errorf(msg + ": %w", cause)
Errorf(msg, cause) == <<[kind |-> "wrapError", msg |-> msg]>> \o cause

\* fmt.Errorf(msg) with no %w verb: the result wraps nothing
ErrorfText(msg) == <<[kind |-> "errorString", msg |-> msg]>>

\* a faulty constructor that does not store the cause
NewFormatErrorWithoutCause(cause) == <<[kind |-> "FormatError", msg |-> "format error"]>>

\* &FormatError{err: err}
NewFormatError(cause) == <<[kind |-> "FormatError", msg |-> "format error"]>> \o cause

\* errors.Unwrap(e): the err field of a FormatError, the %w operand of an
\* error of fmt.Errorf, nil for an error that wraps nothing
Unwrap(e) == IF e = Nil THEN Nil ELSE Tail(e)

\* errors.Is(e, target): e or an error of its chain is target
ErrorsIs(e, target) ==
  target # Nil /\ \E i \in 1..Len(e) : SubSeq(e, i, Len(e)) = target

\* e.Error() as the list of the parts that ": " joins: a FormatError prints
\* fmt.Sprintf("format error: %v", e.err), an error of fmt.Errorf its text
\* with the message of its operand
RECURSIVE ErrorMessage(_)
ErrorMessage(e) ==
  IF e = Nil THEN <<>>
  ELSE IF e[1].kind = "FormatError"
    THEN <<"format error">> \o ErrorMessage(Unwrap(e))
  ELSE <<e[1].msg>> \o ErrorMessage(Unwrap(e))

\* an error of package os or io, and an error of the codec library
OSError(what) == <<[kind |-> "os", msg |-> what]>>
CodecError(what) == <<[kind |-> "vips", msg |-> what]>>
\* an error of the codec library that no property of the image content causes
\* (memory, a missing saver, a fault of the library)
CodecFault(what) == <<[kind |-> "vipsFault", msg |-> what]>>

\* the errors an operation of the codec library can return: the content was
\* rejected, or the library failed at run time
CodecFailures(what) == {CodecError(what), CodecFault(what)}

\* the errors of vips.NewImageFromFile / vips.LoadImageFromFile, which read
\* the file at inputPath themselves
LoadFailures == {OSError("open")} \cup CodecFailures("load")

\* errors.As(err, &formatErr) with formatErr a *FormatError
AsFormatError(e) == \E i \in 1..Len(e) : e[i].kind = "FormatError"

\* the zero ConverterConfig
ZeroConfig == [Quality |-> 0, TryNearLossless |-> FALSE, CQ |-> 0]

DefaultQuality == 80
DefaultCQ == 25

\* a faulty constructor that overwrites the given values with the defaults
NewConverterAlwaysDefaults(cfg) ==
  [ Quality |-> DefaultQuality,
    TryNearLossless |-> cfg.TryNearLossless,
    CQ |-> DefaultCQ ]

NewConverter(cfg) ==
  [ Quality |-> IF cfg.Quality = 0 THEN DefaultQuality ELSE cfg.Quality,
    TryNearLossless |-> cfg.TryNearLossless,
    CQ |-> IF cfg.CQ = 0 THEN DefaultCQ ELSE cfg.CQ ]

\* the configurations handed to NewConverter
ConfigInputs ==
  { ZeroConfig,
    [Quality |-> 50, TryNearLossless |-> TRUE, CQ |-> 0],
    [Quality |-> 0, TryNearLossless |-> TRUE, CQ |-> 30],
    [Quality |-> 50, TryNearLossless |-> FALSE, CQ |-> 30] }

NoParams ==
  [target |-> "none", Quality |-> 0, Lossless |-> FALSE, NearLossless |-> FALSE,
   StripMetadata |-> FALSE, pages |-> "none"]

\* the kinds of metadata an image file can carry
MetadataKinds == {"EXIF", "XMP", "ICC"}

\* the metadata of the input files: none, or all three kinds
MetaInputs == {{}, MetadataKinds}

\* no second call
NoCall == [pc |-> "none"]
\* var outputBuffer []byte
NoBuffer == [kind |-> "nil", len |-> 0, params |-> NoParams, meta |-> {}]
\* no file at outputPath
NoFile == [kind |-> "absent", len |-> 0, params |-> NoParams, meta |-> {}]
\* a file that was at outputPath before the call
OldFile == [kind |-> "old", len |-> 1, params |-> NoParams, meta |-> {}]
\* what a failed os.WriteFile can leave behind after it has opened the file
TruncatedFile == [kind |-> "truncated", len |-> 0, params |-> NoParams, meta |-> {}]

\* Quality of vips.NewWebpExportParams() and of vips.NewAvifExportParams()
WebpDefaultQuality == 75
AvifDefaultQuality == 80

\* the files converted: whole files of 2, 12, 13 and 33 bytes
ConvFiles == { Take(f, k) : <<f, k>> \in Fixtures \X {2, 12, 13, SniffBufLen + 1} }

(***************************************************************************)
(* State                                                                   *)
(***************************************************************************)
VARIABLES
  entry,      \* the entry point called
  data,       \* the byte slice, the stream's bytes or the file's bytes
  other,      \* a second input with the same first 32 bytes as data
  spc,        \* position of the sniffing call: "start", "reading", "done"
  n,          \* bytes io.ReadFull has placed in buf
  consumed,   \* bytes the source has handed out
  rdErr,      \* error of the last Read: "nil", "EOF" or "io"
  result,     \* the (ImageType, error) returned for data
  result2,    \* the (ImageType, error) returned for other
  op,         \* the conversion called: "ToWebP" or "ToAVIF"
  config,     \* Converter.config
  pc,         \* the statement the conversion call is at
  inputSize,  \* inputInfo.Size()
  imgType,    \* imgType of the call, "none" before DetectImageType returns
  outputBuffer, \* outputBuffer: its length and the export parameters behind it
  err,        \* the error the call returned (a chain of wrapped errors)
  steps,      \* the operations the call has invoked so far, in order
  outDir,     \* whether the directory of outputPath exists
  outFile,    \* the content of the file at outputPath
  fs0,        \* outDir and outFile when the call began
  exported,   \* the results of the export calls of the call, in order
  imageMeta,  \* the metadata of the input file and, once loaded, of image
  given,      \* the ConverterConfig that was handed to NewConverter
  variant,    \* which ToAVIF is built: by magic bytes or by file extension
  inputExt,   \* filepath.Ext(inputPath)
  cli,        \* a run of the command line program: flags, position, output
  parked,     \* the local state of the other of two concurrent calls
  running,    \* which of the concurrent calls the variables above describe
  proc,       \* the kind of process run: "library", "cli" or "test"
  phase,      \* how far the process run is: "load", "testmain", "main", "exit"
  startups,   \* the calls of vips.Startup so far
  shutdowns,  \* the calls of vips.Shutdown so far
  ncalls      \* the conversions the process has begun

sniffVars == <<entry, data, other, spc, n, consumed, rdErr, result, result2>>

convVars ==
  <<op, config, pc, inputSize, imgType, outputBuffer, err, steps, outDir, outFile, fs0,
    exported, imageMeta>>

\* the Converter's input, the other call, and the process around the calls
ctxVars == <<given, parked, running, variant, inputExt, cli>>
procVars == <<proc, phase, startups, shutdowns, ncalls>>

vars == <<sniffVars, convVars, ctxVars, procVars>>

NoResult == [type |-> "none", err |-> "none"]

\* no process around the call
\* no run of the command line program
NoCli == [cmd |-> "none"]

NoProcess ==
  /\ proc = "none"
  /\ phase = "none"
  /\ startups = 0
  /\ shutdowns = 0
  /\ ncalls = 0

SniffInit ==
  /\ entry \in {"bytes", "reader", "file"}
  /\ data \in (IF entry = "bytes" THEN Inputs ELSE Streams)
  /\ other \in (IF entry = "bytes"
                  THEN SamePrefix(data, ExtPatterns, MaxExtra)
                  ELSE SamePrefix(data, StreamExtPatterns, MaxStreamExtra))
  /\ spc = "start"
  /\ n = 0
  /\ consumed = 0
  /\ rdErr = "nil"
  /\ result = NoResult
  /\ result2 = NoResult
  /\ op = "none"
  /\ config = NewConverter(ZeroConfig)
  /\ pc = "idle"
  /\ inputSize = 0
  /\ imgType = "none"
  /\ outputBuffer = NoBuffer
  /\ err = Nil
  /\ steps = <<>>
  /\ outDir = FALSE
  /\ outFile = NoFile
  /\ fs0 = [dir |-> FALSE, file |-> NoFile]
  /\ exported = <<>>
  /\ imageMeta = {}
  /\ given = ZeroConfig
  /\ parked = NoCall
  /\ running = 1
  /\ variant = "magic"
  /\ inputExt = "none"
  /\ cli = NoCli
  /\ NoProcess

\* DetectImageTypeFromBytes(data), and the same call on other
CallDetectImageTypeFromBytes ==
  /\ entry = "bytes"
  /\ spc = "start"
  /\ result' = [type |-> DetectImageTypeFromBytes(data), err |-> "nil"]
  /\ result2' = [type |-> DetectImageTypeFromBytes(other), err |-> "nil"]
  /\ spc' = "done"
  /\ UNCHANGED <<entry, data, other, n, consumed, rdErr, convVars, ctxVars, procVars>>

\* DetectImageTypeFromReader(r): buf := make([]byte, 32), before the first Read
CallDetectImageTypeFromReader ==
  /\ entry = "reader"
  /\ spc = "start"
  /\ spc' = "reading"
  /\ UNCHANGED <<entry, data, other, n, consumed, rdErr, result, result2, convVars, ctxVars, procVars>>

\* DetectImageType(filePath): os.Open succeeds
OpenFileOk ==
  /\ entry = "file"
  /\ spc = "start"
  /\ spc' = "reading"
  /\ UNCHANGED <<entry, data, other, n, consumed, rdErr, result, result2, convVars, ctxVars, procVars>>

\* DetectImageType(filePath): os.Open fails
OpenFileFails ==
  /\ entry = "file"
  /\ spc = "start"
  /\ spc' = "done"
  /\ result' = DetectImageType("openfail", data)
  /\ result2' = DetectImageType("openfail", other)
  /\ UNCHANGED <<entry, data, other, n, consumed, rdErr, convVars, ctxVars, procVars>>

\* one r.Read(buf[n:]) of io.ReadFull delivering k bytes with error e; when the
\* read loop ends with it (buf full or e set) the call returns its result
\* (the call on other meets the same I/O failure, if any)
ReadCall(k, e) ==
  /\ spc = "reading"
  /\ n < SniffBufLen
  /\ rdErr = "nil"
  /\ k <= ReadBufLen(n)
  /\ k <= Len(data) - consumed
  /\ e = "nil" => k > 0
  /\ e = "EOF" => k = Len(data) - consumed
  /\ n' = n + k
  /\ consumed' = consumed + k
  /\ rdErr' = e
  /\ IF n' >= SniffBufLen \/ e # "nil"
       THEN /\ spc' = "done"
            /\ result' = SniffAfterRead(Take(data, n'), n', ReadFullErr(n', e))
            /\ result2' = IF e = "io" THEN result'
                          ELSE DetectImageTypeFromReader(other)
       ELSE UNCHANGED <<spc, result, result2>>
  /\ UNCHANGED <<entry, data, other, convVars, ctxVars, procVars>>

\* the reader decides how many bytes a Read delivers and how it ends
Read == \E k \in 0..Len(data), e \in {"nil", "EOF", "io"} : ReadCall(k, e)

SniffNext ==
  \/ CallDetectImageTypeFromBytes
  \/ CallDetectImageTypeFromReader
  \/ OpenFileOk
  \/ OpenFileFails
  \/ Read

SpecSniff == SniffInit /\ [][SniffNext]_vars

(***************************************************************************)
(* Converter.ToWebP and Converter.ToAVIF                                   *)
(* ToAVIF is the method that detects the input format by magic bytes       *)
(* (DetectImageType), as ToWebP does. One call runs per behaviour; every   *)
(* call of the codec library, of os and of the sniffer is one step, and    *)
(* each may fail.                                                          *)
(***************************************************************************)
\* the error value of DetectImageType for the error tag of the sniffer
SniffError(tag) ==
  CASE tag = "open" -> Errorf("failed to open file", OSError("open"))
    [] tag = "read" -> Errorf("failed to read magic bytes", OSError("read"))
    [] tag = "small" -> ErrorfText("file too small to determine type")
    [] OTHER -> Nil

\* a faulty gate that lets a buffer as long as the input pass
SizeGateRejectsOnlyLonger(outLen, inSize) == outLen > inSize

\* a faulty gate that rejects nothing
SizeGateRejectsNever(outLen, inSize) == FALSE

\* int64(len(outputBuffer)) >= inputInfo.Size()
SizeGateRejects(outLen, inSize) == outLen >= inSize

\* a ToAVIF without its GIF check
AVIFRejectsNothing(t) == FALSE

\* if imgType == ImageTypeGIF in ToAVIF
AVIFRejects(t) == t = ImageTypeGIF

\* a faulty switch whose JPEG case leaves the default quality of the encoder
WebpParamsDefaultQuality(t, cfg) ==
  [target |-> "webp", Quality |-> WebpDefaultQuality, Lossless |-> t # ImageTypeJPEG,
   NearLossless |-> FALSE, StripMetadata |-> TRUE,
   pages |-> IF t = ImageTypeGIF THEN "all" ELSE "first"]

\* the export parameters of the switch on imgType
WebpParams(t, cfg) ==
  CASE t = ImageTypeJPEG ->
         [target |-> "webp", Quality |-> cfg.Quality, Lossless |-> FALSE,
          NearLossless |-> FALSE, StripMetadata |-> TRUE, pages |-> "first"]
    [] t = ImageTypePNG ->
         [target |-> "webp", Quality |-> WebpDefaultQuality, Lossless |-> TRUE,
          NearLossless |-> FALSE, StripMetadata |-> TRUE, pages |-> "first"]
    [] t = ImageTypeGIF ->
         [target |-> "webp", Quality |-> WebpDefaultQuality, Lossless |-> TRUE,
          NearLossless |-> FALSE, StripMetadata |-> TRUE, pages |-> "all"]

NearLosslessParams ==
  [target |-> "webp", Quality |-> 100, Lossless |-> FALSE,
   NearLossless |-> TRUE, StripMetadata |-> TRUE, pages |-> "first"]

AvifParams(t, cfg) ==
  CASE t = ImageTypeJPEG ->
         [target |-> "avif", Quality |-> cfg.CQ, Lossless |-> FALSE,
          NearLossless |-> FALSE, StripMetadata |-> FALSE, pages |-> "first"]
    [] t = ImageTypePNG ->
         [target |-> "avif", Quality |-> AvifDefaultQuality, Lossless |-> TRUE,
          NearLossless |-> FALSE, StripMetadata |-> FALSE, pages |-> "first"]

ConvInit ==
  /\ op \in {"ToWebP", "ToAVIF"}
  /\ entry = op
  /\ data \in ConvFiles
  /\ other = data
  /\ spc = "start"
  /\ n = 0
  /\ consumed = 0
  /\ rdErr = "nil"
  /\ result = NoResult
  /\ result2 = NoResult
  /\ given \in ConfigInputs
  /\ config = NewConverter(given)
  /\ parked = NoCall
  /\ running = 1
  /\ variant = "magic"
  /\ inputExt = "none"
  /\ cli = NoCli
  /\ NoProcess
  /\ pc = "stat"
  /\ inputSize = 0
  /\ imgType = "none"
  /\ outputBuffer = NoBuffer
  /\ err = Nil
  /\ steps = <<>>
  /\ outDir \in BOOLEAN
  /\ outFile \in (IF outDir THEN {NoFile, OldFile} ELSE {NoFile})
  /\ fs0 = [dir |-> outDir, file |-> outFile]
  /\ exported = <<>>
  /\ imageMeta \in MetaInputs

\* return e
Return(e) == pc' = "done" /\ err' = e

\* inputInfo, err := os.Stat(inputPath)
Stat ==
  /\ pc = "stat"
  /\ steps' = Append(steps, "stat")
  /\ \E ok \in BOOLEAN :
       IF ok
         THEN /\ inputSize' = Len(data)
              /\ pc' = "load"
              /\ UNCHANGED err
         ELSE /\ Return(Errorf("failed to stat input file", OSError("stat")))
              /\ UNCHANGED inputSize
  /\ UNCHANGED <<sniffVars, ctxVars, procVars, exported, imageMeta, op, config, imgType, outputBuffer, outDir, outFile, fs0>>

\* a faulty ToAVIF that removes the metadata right after the load
AfterLoadRemovesMetadata(o) == IF o = "ToAVIF" THEN "rmmeta" ELSE "rotate"

\* the statement after the load: err = image.AutoRotate(), in both methods
AfterLoad(o) == "rotate"

\* image, err := vips.NewImageFromFile(inputPath)
LoadImage ==
  /\ pc = "load"
  /\ steps' = Append(steps, "load")
  /\ \E ok \in BOOLEAN :
       IF ok
         THEN pc' = AfterLoad(op) /\ UNCHANGED err
         ELSE \E cause \in LoadFailures :
                Return(Errorf("failed to load image", NewFormatError(cause)))
  /\ UNCHANGED <<sniffVars, ctxVars, procVars, exported, imageMeta, op, config, inputSize, imgType, outputBuffer, outDir, outFile, fs0>>

\* the statement after the rotation: DetectImageType in ToWebP,
\* image.RemoveMetadata() in the ToAVIF that sniffs, the switch on the
\* extension in the ToAVIF that does not
AfterRotate(o, v) ==
  IF o = "ToWebP" THEN "sniff"
  ELSE IF v = "ext" THEN "ext"
  ELSE "rmmeta"

\* err = image.AutoRotate()
AutoRotate ==
  /\ pc = "rotate"
  /\ steps' = Append(steps, "rotate")
  /\ \E ok \in BOOLEAN :
       IF ok
         THEN pc' = AfterRotate(op, variant) /\ UNCHANGED err
         ELSE \E cause \in CodecFailures("rotate") :
                Return(Errorf("failed to auto-rotate", NewFormatError(cause)))
  /\ UNCHANGED <<sniffVars, ctxVars, procVars, exported, imageMeta, op, config, inputSize, imgType, outputBuffer, outDir, outFile, fs0>>

\* "RemoveMetadata() keeps ICC profile, orientation, and page info"
KeptByRemoveMetadata == {"ICC"}

\* ToAVIF: err = image.RemoveMetadata()
RemoveMetadata ==
  /\ pc = "rmmeta"
  /\ steps' = Append(steps, "rmmeta")
  /\ \E ok \in BOOLEAN :
       IF ok
         THEN /\ imageMeta' = imageMeta \cap KeptByRemoveMetadata
              /\ pc' = "sniff"
              /\ UNCHANGED err
         ELSE /\ \E cause \in CodecFailures("rmmeta") :
                   Return(Errorf("failed to remove metadata", cause))
              /\ UNCHANGED imageMeta
  /\ UNCHANGED <<sniffVars, ctxVars, procVars, exported, op, config, inputSize, imgType, outputBuffer, outDir, outFile, fs0>>

\* imgType, err := DetectImageType(inputPath), the IsSupported check and, in
\* ToAVIF, the GIF check
Sniff ==
  /\ pc = "sniff"
  /\ steps' = Append(steps, "sniff")
  /\ \E io \in {"ok", "openfail", "readfail"} :
       LET r == DetectImageType(io, data) IN
         /\ imgType' = r.type
         /\ IF r.err # "nil"
              THEN Return(Errorf("failed to detect image type", SniffError(r.err)))
              ELSE IF ~IsSupported(r.type)
                THEN Return(ErrorfText("unsupported image format"))
              ELSE IF op = "ToAVIF" /\ AVIFRejects(r.type)
                THEN Return(NewFormatError(ErrorfText("GIF to AVIF conversion is not supported")))
              ELSE /\ pc' = (IF op = "ToWebP" /\ r.type = ImageTypeGIF
                               THEN "loadanim" ELSE "export")
                   /\ UNCHANGED err
  /\ UNCHANGED <<sniffVars, ctxVars, procVars, exported, imageMeta, op, config, inputSize, outputBuffer, outDir, outFile, fs0>>

\* ToWebP, GIF: animImage, err := vips.LoadImageFromFile(inputPath, animParams)
LoadAnimated ==
  /\ pc = "loadanim"
  /\ steps' = Append(steps, "loadanim")
  /\ \E ok \in BOOLEAN :
       IF ok
         THEN pc' = "export" /\ UNCHANGED err
         ELSE \E cause \in LoadFailures :
                Return(Errorf("failed to load animated gif", NewFormatError(cause)))
  /\ UNCHANGED <<sniffVars, ctxVars, procVars, exported, imageMeta, op, config, inputSize, imgType, outputBuffer, outDir, outFile, fs0>>

\* the case of the switch on imgType has a second, near-lossless export
WantsNearLossless ==
  op = "ToWebP" /\ imgType = ImageTypePNG /\ config.TryNearLossless

\* the metadata of an exported buffer: with StripMetadata the encoder
\* writes none, without it the metadata of the image
ExportMeta(params, m) == IF params.StripMetadata THEN {} ELSE m

\* the buffer an export call returns
Encoded(k, params, m) ==
  [kind |-> "encoded", len |-> k, params |-> params, meta |-> ExportMeta(params, m)]

\* the nil buffer and the error of a failed export call
FailedExport(params) ==
  [kind |-> "failed", len |-> 0, params |-> params, meta |-> {}]

\* outputBuffer, _, err = image.ExportWebp(params) / image.ExportAvif(params)
\* of the case of imgType; a type with no case leaves outputBuffer nil
Export ==
  /\ pc = "export"
  /\ LET cases == IF op = "ToWebP"
                    THEN {ImageTypeJPEG, ImageTypePNG, ImageTypeGIF}
                    ELSE {ImageTypeJPEG, ImageTypePNG}
         params == IF op = "ToWebP" THEN WebpParams(imgType, config)
                   ELSE AvifParams(imgType, config)
     IN IF imgType \notin cases
          THEN /\ pc' = "gate"
               /\ UNCHANGED <<outputBuffer, err, steps, exported>>
          ELSE /\ steps' = Append(steps, "export")
               /\ \E ok \in BOOLEAN, k \in 1..MaxOutLen :
                    IF ok
                      THEN /\ outputBuffer' = Encoded(k, params, imageMeta)
                           /\ exported' = Append(exported, outputBuffer')
                           /\ pc' = (IF WantsNearLossless THEN "export2" ELSE "gate")
                           /\ UNCHANGED err
                      ELSE /\ \E cause \in CodecFailures("export") :
                                Return(Errorf(IF op = "ToAVIF" THEN "failed to export avif"
                                              ELSE IF imgType = ImageTypeGIF
                                                THEN "failed to export animated webp"
                                              ELSE "failed to export webp",
                                              NewFormatError(cause)))
                           /\ exported' = Append(exported, FailedExport(params))
                           /\ UNCHANGED outputBuffer
  /\ UNCHANGED <<sniffVars, ctxVars, procVars, imageMeta, op, config, inputSize, imgType, outDir, outFile, fs0>>

\* a faulty comparison that lets a near-lossless buffer of equal length win
KeepsNearLosslessOnTie(ok, nearLen, losslessLen) == ok /\ nearLen <= losslessLen

\* err2 == nil && len(nearLosslessBuffer) < len(outputBuffer)
KeepsNearLossless(ok, nearLen, losslessLen) == ok /\ nearLen < losslessLen

\* nearLosslessBuffer, _, err2 := image.ExportWebp(nearLosslessParams)
ExportNearLossless ==
  /\ pc = "export2"
  /\ steps' = Append(steps, "export2")
  /\ \E ok \in BOOLEAN, k \in 1..MaxOutLen :
       LET nearLosslessBuffer == IF ok THEN Encoded(k, NearLosslessParams, imageMeta)
                                 ELSE FailedExport(NearLosslessParams)
       IN /\ exported' = Append(exported, nearLosslessBuffer)
          /\ outputBuffer' =
               IF KeepsNearLossless(ok, nearLosslessBuffer.len, outputBuffer.len)
                 THEN nearLosslessBuffer
                 ELSE outputBuffer
  /\ pc' = "gate"
  /\ UNCHANGED <<sniffVars, ctxVars, procVars, imageMeta, op, config, inputSize, imgType, err, outDir, outFile, fs0>>

\* if int64(len(outputBuffer)) >= inputInfo.Size() { return NewFormatError(...) }
SizeGate ==
  /\ pc = "gate"
  /\ steps' = Append(steps, "gate")
  /\ IF SizeGateRejects(outputBuffer.len, inputSize)
       THEN Return(NewFormatError(ErrorfText("output file size is not smaller than input")))
       ELSE pc' = "mkdir" /\ UNCHANGED err
  /\ UNCHANGED <<sniffVars, ctxVars, procVars, exported, imageMeta, op, config, inputSize, imgType, outputBuffer, outDir, outFile, fs0>>

\* os.MkdirAll(outputDir, 0755)
MkdirAll ==
  /\ pc = "mkdir"
  /\ steps' = Append(steps, "mkdir")
  /\ \E ok \in BOOLEAN :
       IF ok
         THEN outDir' = TRUE /\ pc' = "write" /\ UNCHANGED err
         ELSE /\ Return(Errorf("failed to create output directory", OSError("mkdir")))
              /\ UNCHANGED outDir
  /\ UNCHANGED <<sniffVars, ctxVars, procVars, exported, imageMeta, op, config, inputSize, imgType, outputBuffer, outFile, fs0>>

\* os.WriteFile(outputPath, outputBuffer, 0600); a failed write leaves the
\* file as it was or, once opened, truncated
WriteFile ==
  /\ pc = "write"
  /\ steps' = Append(steps, "write")
  /\ \E ok \in BOOLEAN :
       IF ok
         THEN outFile' = outputBuffer /\ Return(Nil)
         ELSE /\ outFile' \in {outFile, TruncatedFile}
              /\ Return(Errorf("failed to write output file", OSError("write")))
  /\ UNCHANGED <<sniffVars, ctxVars, procVars, exported, imageMeta, op, config, inputSize, imgType, outputBuffer, outDir, fs0>>

Next ==
  \/ Stat
  \/ LoadImage
  \/ AutoRotate
  \/ RemoveMetadata
  \/ Sniff
  \/ LoadAnimated
  \/ Export
  \/ ExportNearLossless
  \/ SizeGate
  \/ MkdirAll
  \/ WriteFile

Spec == ConvInit /\ [][Next]_vars

(***************************************************************************)
(* Calls on named files. The sources hold two ToAVIF methods: one detects  *)
(* the format with DetectImageType, the other switches on the extension    *)
(* of inputPath; which one a build has is open.                            *)
(***************************************************************************)
\* the extensions of the input paths
Exts == {".jpg", ".JPG", ".jpeg", ".png", ".gif", ".txt"}

\* strings.ToLower on those
ToLower(e) == IF e = ".JPG" THEN ".jpg" ELSE e

\* the case of switch ext, named as the image type it encodes for
ExtCase(e) ==
  CASE e \in {".jpg", ".jpeg"} -> ImageTypeJPEG
    [] e = ".png" -> ImageTypePNG
    [] e = ".gif" -> ImageTypeGIF
    [] OTHER -> ImageTypeUnknown

\* the files converted under a name: 13 bytes of JPEG, PNG, GIF and WebP
NamedFiles ==
  { Take(f, MinSniffLen + 1) :
      f \in { g \in Fixtures :
                DetectImageTypeFromBytes(g) \in
                  {ImageTypeJPEG, ImageTypePNG, ImageTypeGIF, ImageTypeWebP} } }

NamedInit ==
  /\ op \in {"ToWebP", "ToAVIF"}
  /\ entry = op
  /\ variant \in (IF op = "ToAVIF" THEN {"magic", "ext"} ELSE {"magic"})
  /\ inputExt \in Exts
  /\ cli = NoCli
  /\ data \in NamedFiles
  /\ other = data
  /\ spc = "start"
  /\ n = 0
  /\ consumed = 0
  /\ rdErr = "nil"
  /\ result = NoResult
  /\ result2 = NoResult
  /\ given \in ConfigInputs
  /\ config = NewConverter(given)
  /\ parked = NoCall
  /\ running = 1
  /\ NoProcess
  /\ pc = "stat"
  /\ inputSize = 0
  /\ imgType = "none"
  /\ outputBuffer = NoBuffer
  /\ err = Nil
  /\ steps = <<>>
  /\ outDir = FALSE
  /\ outFile = NoFile
  /\ fs0 = [dir |-> FALSE, file |-> NoFile]
  /\ exported = <<>>
  /\ imageMeta = MetadataKinds

\* ext := strings.ToLower(filepath.Ext(inputPath)); switch ext { ... }: the
\* cases ".gif" and default return, the others go on to their export
ExtSwitch ==
  /\ pc = "ext"
  /\ steps' = Append(steps, "ext")
  /\ LET t == ExtCase(ToLower(inputExt)) IN
       /\ imgType' = t
       /\ IF t = ImageTypeGIF
            THEN Return(NewFormatError(ErrorfText(
                          "GIF to AVIF conversion is not supported by this library")))
            ELSE IF t = ImageTypeUnknown
              THEN Return(ErrorfText("unsupported input format"))
            ELSE pc' = "export" /\ UNCHANGED err
  /\ UNCHANGED <<sniffVars, ctxVars, procVars, exported, imageMeta, op, config, inputSize,
                 outputBuffer, outDir, outFile, fs0>>

NamedNext ==
  \/ Next
  \/ ExtSwitch

SpecNamed == NamedInit /\ [][NamedNext]_vars

(***************************************************************************)
(* A process run around the conversions: a program that imports the        *)
(* package ("library"), the nextgenimage command ("cli") and the test      *)
(* binary of the package ("test")                                          *)
(***************************************************************************)
\* the conversions a library or test process makes at most
MaxCalls == 2

\* the command converts one file per run: cobra.ExactArgs(2)
CallLimit(p) == IF p = "cli" THEN 1 ELSE MaxCalls

\* the files a process converts: 13 bytes with a JPEG, PNG and GIF signature
ProcFiles ==
  { Take(f, MinSniffLen + 1) :
      f \in { g \in Fixtures : IsSupported(DetectImageTypeFromBytes(g)) } }

ProcConfigs == {ZeroConfig, [Quality |-> 50, TryNearLossless |-> TRUE, CQ |-> 0]}

NoCallYet ==
  /\ op = "none"
  /\ entry = "none"
  /\ data = <<>>
  /\ other = <<>>
  /\ pc = "idle"
  /\ inputSize = 0
  /\ imgType = "none"
  /\ outputBuffer = NoBuffer
  /\ err = Nil
  /\ steps = <<>>
  /\ exported = <<>>
  /\ imageMeta = {}
  /\ outFile = NoFile

ProcInit ==
  /\ proc \in {"library", "cli", "test"}
  /\ phase = "load"
  /\ startups = 0
  /\ shutdowns = 0
  /\ ncalls = 0
  /\ given \in ProcConfigs
  /\ config = NewConverter(given)
  /\ parked = NoCall
  /\ running = 1
  /\ variant = "magic"
  /\ inputExt = "none"
  /\ cli = NoCli
  /\ NoCallYet
  /\ spc = "start"
  /\ n = 0
  /\ consumed = 0
  /\ rdErr = "nil"
  /\ result = NoResult
  /\ result2 = NoResult
  /\ outDir = FALSE
  /\ fs0 = [dir |-> FALSE, file |-> NoFile]

\* func init() { vips.Startup(nil) } of package nextgenimage, run when the
\* program is loaded, before main and before TestMain
PackageInit ==
  /\ phase = "load"
  /\ startups' = startups + 1
  /\ phase' = (IF proc = "test" THEN "testmain" ELSE "main")
  /\ UNCHANGED <<sniffVars, convVars, ctxVars, proc, shutdowns, ncalls>>

\* TestMain: vips.Startup(nil) before m.Run()
TestMainStartup ==
  /\ phase = "testmain"
  /\ startups' = startups + 1
  /\ phase' = "main"
  /\ UNCHANGED <<sniffVars, convVars, ctxVars, proc, shutdowns, ncalls>>

\* the program (a test of m.Run(), runWebP, a caller) calls ToWebP or ToAVIF
\* on a file and a fresh output path
BeginCall ==
  /\ phase = "main"
  /\ pc \in {"idle", "done"}
  /\ ncalls < CallLimit(proc)
  /\ ncalls' = ncalls + 1
  /\ \E o \in {"ToWebP", "ToAVIF"}, d \in ProcFiles :
       /\ op' = o
       /\ entry' = o
       /\ data' = d
       /\ other' = d
  /\ pc' = "stat"
  /\ inputSize' = 0
  /\ imgType' = "none"
  /\ outputBuffer' = NoBuffer
  /\ err' = Nil
  /\ steps' = <<>>
  /\ exported' = <<>>
  /\ imageMeta' = MetadataKinds
  /\ outFile' = NoFile
  /\ fs0' = [dir |-> outDir, file |-> NoFile]
  /\ UNCHANGED <<spc, n, consumed, rdErr, result, result2, config, outDir, ctxVars,
                 proc, phase, startups, shutdowns>>

\* TestMain: code := m.Run(); vips.Shutdown(); os.Exit(code)
TestMainShutdown ==
  /\ proc = "test"
  /\ phase = "main"
  /\ pc \in {"idle", "done"}
  /\ shutdowns' = shutdowns + 1
  /\ phase' = "exit"
  /\ UNCHANGED <<sniffVars, convVars, ctxVars, proc, startups, ncalls>>

\* main returns or calls os.Exit(1) after rootCmd.Execute(); the program
\* that imports the package ends
ProcessExit ==
  /\ proc \in {"library", "cli"}
  /\ phase = "main"
  /\ pc \in {"idle", "done"}
  /\ phase' = "exit"
  /\ UNCHANGED <<sniffVars, convVars, ctxVars, proc, startups, shutdowns, ncalls>>

ProcNext ==
  \/ PackageInit
  \/ TestMainStartup
  \/ BeginCall
  \/ Next
  \/ TestMainShutdown
  \/ ProcessExit

SpecProcess == ProcInit /\ [][ProcNext]_vars

(***************************************************************************)
(* Two concurrent calls on one Converter, as the goroutines of             *)
(* TestConcurrentConversions: the variables of a call describe the call    *)
(* that takes the next step, parked holds the other one. The Converter     *)
(* and the output directory are shared, each call has its own locals and   *)
(* its own output path.                                                    *)
(***************************************************************************)
\* the local state of the call the variables describe
Locals ==
  [op |-> op, data |-> data, pc |-> pc, inputSize |-> inputSize, imgType |-> imgType,
   outputBuffer |-> outputBuffer, err |-> err, steps |-> steps, outFile |-> outFile,
   fs0 |-> fs0, exported |-> exported, imageMeta |-> imageMeta]

\* a call of method o on the file d that has not taken a step
InitialCall(o, d, m, dir) ==
  [op |-> o, data |-> d, pc |-> "stat", inputSize |-> 0, imgType |-> "none",
   outputBuffer |-> NoBuffer, err |-> Nil, steps |-> <<>>, outFile |-> NoFile,
   fs0 |-> [dir |-> dir, file |-> NoFile], exported |-> <<>>, imageMeta |-> m]

\* two calls that are given one output path
OutputPathShared(c) == 1

\* the output path of call c: concurrent1.webp, concurrent2.webp, ...
OutputPath(c) == c

SamePath == OutputPath(1) = OutputPath(2)

ConcInit ==
  /\ given \in ProcConfigs
  /\ config = NewConverter(given)
  /\ running = 1
  /\ variant = "magic"
  /\ inputExt = "none"
  /\ cli = NoCli
  /\ parked \in { InitialCall("ToAVIF", d, MetadataKinds, FALSE) :
                    d \in { f \in ProcFiles : DetectImageTypeFromBytes(f) = ImageTypeJPEG } }
  /\ op \in {"ToWebP", "ToAVIF"}
  /\ entry = op
  /\ data \in ProcFiles
  /\ other = data
  /\ pc = "stat"
  /\ inputSize = 0
  /\ imgType = "none"
  /\ outputBuffer = NoBuffer
  /\ err = Nil
  /\ steps = <<>>
  /\ outFile = NoFile
  /\ outDir = FALSE
  /\ fs0 = [dir |-> FALSE, file |-> NoFile]
  /\ exported = <<>>
  /\ imageMeta = MetadataKinds
  /\ spc = "start"
  /\ n = 0
  /\ consumed = 0
  /\ rdErr = "nil"
  /\ result = NoResult
  /\ result2 = NoResult
  /\ NoProcess

\* the scheduler lets the other goroutine take the next step
Switch ==
  /\ parked.pc \notin {"none", "done"}
  /\ parked' = Locals
  /\ running' = (IF running = 1 THEN 2 ELSE 1)
  /\ op' = parked.op
  /\ entry' = parked.op
  /\ data' = parked.data
  /\ other' = parked.data
  /\ pc' = parked.pc
  /\ inputSize' = parked.inputSize
  /\ imgType' = parked.imgType
  /\ outputBuffer' = parked.outputBuffer
  /\ err' = parked.err
  /\ steps' = parked.steps
  /\ outFile' = (IF SamePath THEN outFile ELSE parked.outFile)
  /\ fs0' = parked.fs0
  /\ exported' = parked.exported
  /\ imageMeta' = parked.imageMeta
  /\ UNCHANGED <<spc, n, consumed, rdErr, result, result2, config, outDir, given,
                 variant, inputExt, cli, procVars>>

ConcNext ==
  \/ Next
  \/ Switch

SpecConcurrent == ConcInit /\ [][ConcNext]_vars

(***************************************************************************)
(* The command line program: nextgenimage webp|avif [flags] input output   *)
(***************************************************************************)
\* the values given to --quality and to --cq
CliValues(cmd) == IF cmd = "webp" THEN {0, 1, 100, 101} ELSE {0, 1, 63, 64}

\* a faulty check that lets 0 through
InRangeFromZero(cmd, v) ==
  IF cmd = "webp" THEN ~(v < 0 \/ v > 100) ELSE ~(v < 0 \/ v > 63)

\* webpQuality < 1 || webpQuality > 100, avifCQ < 1 || avifCQ > 63, negated
InRange(cmd, v) ==
  IF cmd = "webp" THEN ~(v < 1 \/ v > 100) ELSE ~(v < 1 \/ v > 63)

RangeMessage(cmd) ==
  IF cmd = "webp" THEN "quality must be between 1 and 100"
  ELSE "CQ must be between 1 and 63"

\* the lines of "Log start"
StartLines(c) ==
  (IF ~c.quiet THEN <<"Converting">> ELSE <<>>)
  \o (IF c.verbose
        THEN <<"[INFO] Input", "[INFO] Output",
               IF c.cmd = "webp" THEN "[INFO] Quality" ELSE "[INFO] CQ">>
             \o (IF c.cmd = "webp" /\ c.tryNL THEN <<"[INFO] Near-lossless">> ELSE <<>>)
        ELSE <<>>)

\* the line printed for a FormatError
RejectionLines(c) == IF ~c.quiet THEN <<"X FormatError">> ELSE <<>>

\* the lines of "Log success"
SuccessLines(c) ==
  (IF ~c.quiet THEN <<"V converted">> ELSE <<>>)
  \o (IF c.verbose THEN <<"[INFO] Successfully converted">> ELSE <<>>)

\* a faulty configuration that turns near-lossless on for a verbose run
FlagConfigVerbose(c) ==
  IF c.cmd = "webp"
    THEN [Quality |-> c.value, TryNearLossless |-> c.tryNL \/ c.verbose, CQ |-> 0]
    ELSE [Quality |-> 0, TryNearLossless |-> FALSE, CQ |-> c.value]

\* config := nextgenimage.ConverterConfig{}; config.JPEGToWebP.Quality =
\* webpQuality; config.PNGToWebP.TryNearLossless = webpTryNearLossless, and
\* config.JPEGToAVIF.CQ = avifCQ
FlagConfig(c) ==
  IF c.cmd = "webp"
    THEN [Quality |-> c.value, TryNearLossless |-> c.tryNL, CQ |-> 0]
    ELSE [Quality |-> 0, TryNearLossless |-> FALSE, CQ |-> c.value]

\* what errors.As(err, &formatErr) stores in formatErr: the first
\* *FormatError of the chain
AsTarget(e) ==
  LET i == CHOOSE k \in 1..Len(e) :
             e[k].kind = "FormatError" /\ \A j \in 1..(k - 1) : e[j].kind # "FormatError"
  IN SubSeq(e, i, Len(e))

\* a faulty handler that formats the error of the conversion with %v
ConversionErrorFlattened(e) == ErrorfText("conversion failed")

\* if errors.As(err, &formatErr) { return formatErr }
\* return fmt.Errorf("conversion failed: %w", err)
ConversionError(e) ==
  IF AsFormatError(e) THEN AsTarget(e) ELSE Errorf("conversion failed", e)

CliInit ==
  /\ \E cmd \in {"webp", "avif"} :
       \E v \in CliValues(cmd), nl \in (IF cmd = "webp" THEN BOOLEAN ELSE {FALSE}),
          vb \in BOOLEAN, q \in BOOLEAN :
         cli = [cmd |-> cmd, value |-> v, tryNL |-> nl, verbose |-> vb, quiet |-> q,
                cpc |-> "validate", inStat |-> "none", outStat |-> "none",
                built |-> FALSE, runErr |-> Nil, out |-> <<>>, errOut |-> <<>>,
                code |-> -1]
  /\ given = ZeroConfig
  /\ config = ZeroConfig
  /\ parked = NoCall
  /\ running = 1
  /\ variant = "magic"
  /\ inputExt = "none"
  /\ NoProcess
  /\ NoCallYet
  /\ spc = "start"
  /\ n = 0
  /\ consumed = 0
  /\ rdErr = "nil"
  /\ result = NoResult
  /\ result2 = NoResult
  /\ outDir = FALSE
  /\ fs0 = [dir |-> FALSE, file |-> NoFile]

\* runWebP / runAVIF up to the existence check: the range of the flag, then
\* os.Stat(inputPath)
CliValidate ==
  /\ cli.cmd # "none"
  /\ cli.cpc = "validate"
  /\ IF ~InRange(cli.cmd, cli.value)
       THEN cli' = [cli EXCEPT !.cpc = "exit",
                               !.runErr = ErrorfText(RangeMessage(cli.cmd))]
       ELSE \E st \in {"ok", "notexist", "denied"} :
              cli' = [cli EXCEPT
                        !.inStat = st,
                        !.cpc = IF st = "ok" THEN "log" ELSE "exit",
                        !.runErr =
                          CASE st = "ok" -> Nil
                            [] st = "notexist" -> ErrorfText("input file not found")
                            [] OTHER -> Errorf("failed to access input file",
                                               OSError("stat"))]
  /\ UNCHANGED <<sniffVars, convVars, given, parked, running, variant, inputExt, procVars>>

\* "Log start"
CliLogStart ==
  /\ cli.cmd # "none"
  /\ cli.cpc = "log"
  /\ cli' = [cli EXCEPT !.cpc = "new", !.out = cli.out \o StartLines(cli)]
  /\ UNCHANGED <<sniffVars, convVars, given, parked, running, variant, inputExt, procVars>>

\* converter := nextgenimage.NewConverter(config); inputInfo, _ :=
\* os.Stat(inputPath); err := converter.ToWebP(inputPath, outputPath), up to
\* the entry of the method. The second Stat is of the file the first found.
CliNewConverter ==
  /\ cli.cmd # "none"
  /\ cli.cpc = "new"
  /\ cli' = [cli EXCEPT !.cpc = "convert", !.built = TRUE]
  /\ given' = FlagConfig(cli)
  /\ config' = NewConverter(FlagConfig(cli))
  /\ op' = (IF cli.cmd = "webp" THEN "ToWebP" ELSE "ToAVIF")
  /\ entry' = op'
  /\ \E d \in NamedFiles :
       /\ data' = d
       /\ other' = d
  /\ pc' = "stat"
  /\ inputSize' = 0
  /\ imgType' = "none"
  /\ outputBuffer' = NoBuffer
  /\ err' = Nil
  /\ steps' = <<>>
  /\ exported' = <<>>
  /\ imageMeta' = MetadataKinds
  /\ outFile' = NoFile
  /\ fs0' = [dir |-> outDir, file |-> NoFile]
  /\ UNCHANGED <<spc, n, consumed, rdErr, result, result2, outDir, parked, running,
                 variant, inputExt, procVars>>

\* runWebP / runAVIF after the conversion returned: the error, or
\* os.Stat(outputPath) and "Log success"
CliHandleResult ==
  /\ cli.cmd # "none"
  /\ cli.cpc = "convert"
  /\ pc = "done"
  /\ IF err # Nil
       THEN cli' = [cli EXCEPT
                      !.cpc = "exit",
                      !.out = IF AsFormatError(err)
                                THEN cli.out \o RejectionLines(cli) ELSE cli.out,
                      !.runErr = ConversionError(err)]
       ELSE \E st \in {"ok", "failed"} :
              cli' = [cli EXCEPT
                        !.cpc = "exit",
                        !.outStat = st,
                        !.out = IF st = "ok" THEN cli.out \o SuccessLines(cli)
                                ELSE cli.out,
                        !.runErr = IF st = "ok" THEN Nil
                                   ELSE Errorf("failed to stat output file",
                                               OSError("stat"))]
  /\ UNCHANGED <<sniffVars, convVars, given, parked, running, variant, inputExt, procVars>>

\* main: if err := rootCmd.Execute(); err != nil { fmt.Fprintln(os.Stderr,
\* err); os.Exit(1) }, and the return of main otherwise
CliExit ==
  /\ cli.cmd # "none"
  /\ cli.cpc = "exit"
  /\ cli' = [cli EXCEPT
               !.cpc = "exited",
               !.errOut = IF cli.runErr # Nil THEN <<"error">> ELSE <<>>,
               !.code = IF cli.runErr # Nil THEN 1 ELSE 0]
  /\ UNCHANGED <<sniffVars, convVars, given, parked, running, variant, inputExt, procVars>>

CliNext ==
  \/ CliValidate
  \/ CliLogStart
  \/ CliNewConverter
  \/ Next
  \/ CliHandleResult
  \/ CliExit

SpecCLI == CliInit /\ [][CliNext]_vars

(***************************************************************************)
(* Properties of the detector                                              *)
(***************************************************************************)
HasPrefix(b, sig) == Len(b) >= Len(sig) /\ \A i \in 1..Len(sig) : b[i] = sig[i]

\* sig occurs in b at the 0-based offset off
OccursAt(b, sig, off) ==
  off + Len(sig) <= Len(b) /\ \A i \in 1..Len(sig) : b[off + i] = sig[i]

IsBrand(b, off) == OccursAt(b, Avif, off) \/ OccursAt(b, Avis, off)

\* the ftyp/brand rule
RefAVIF(b) ==
  /\ Len(b) >= 12
  /\ OccursAt(b, ftypBox, 4)
  /\ \/ IsBrand(b, 8)
     \/ Len(b) >= 16 /\ \E off \in 16..Len(b) : IsBrand(b, off)

\* the ordered first-match reference
RefType(b) ==
  CASE HasPrefix(b, pngMagic) -> ImageTypePNG
    [] ~HasPrefix(b, pngMagic) /\ HasPrefix(b, jpegMagic1) -> ImageTypeJPEG
    [] ~HasPrefix(b, pngMagic) /\ ~HasPrefix(b, jpegMagic1)
         /\ (HasPrefix(b, gifMagic1) \/ HasPrefix(b, gifMagic2)) -> ImageTypeGIF
    [] OTHER ->
         IF OccursAt(b, webpMagic, 0) /\ OccursAt(b, webpType, 8) THEN ImageTypeWebP
         ELSE IF RefAVIF(b) THEN ImageTypeAVIF
         ELSE ImageTypeUnknown

BytesDone == entry = "bytes" /\ spc = "done"

\* the stream was read to the end of the call with no failure but end of stream
ReaderDone == entry \in {"reader", "file"} /\ spc = "done" /\ n = consumed
                /\ result.err # "open" /\ rdErr # "io"

\* C2: DetectImageTypeFromBytes returns, for every input, the tag of the
\* ordered first-match reference (PNG, JPEG, GIF, WebP, AVIF by the
\* ftyp/brand rule, else Unknown), and reports no error.
C2_FirstMatchReference ==
  BytesDone => result.type = RefType(data) /\ result.err = "nil"

C2_Witness ==
  /\ BytesDone
  /\ result.type = ImageTypeAVIF
  /\ Slice(data, 8, 12) = Mif1
  /\ Len(data) > 16

\* C3 as stated: every input of fewer than 12 bytes is classified Unknown by
\* DetectImageTypeFromBytes.
C3_ShortIsUnknown ==
  BytesDone /\ Len(data) < MinSniffLen => result.type = ImageTypeUnknown

\* C3 amended: an input of fewer than 12 bytes is classified PNG, JPEG or GIF
\* when it starts with the whole 8-, 3- or 6-byte signature of that format,
\* and Unknown otherwise; it is never WebP or AVIF and never an error.
C3_ShortIsSignatureOrUnknown ==
  BytesDone /\ Len(data) < 12 =>
    /\ result.err = "nil"
    /\ result.type =
         IF HasPrefix(data, pngMagic) THEN ImageTypePNG
         ELSE IF HasPrefix(data, jpegMagic1) THEN ImageTypeJPEG
         ELSE IF HasPrefix(data, gifMagic1) \/ HasPrefix(data, gifMagic2)
           THEN ImageTypeGIF
         ELSE ImageTypeUnknown

C3_Witness ==
  /\ BytesDone
  /\ Len(data) = 3
  /\ result.type = ImageTypeJPEG

\* C4: on a reader that fails only by ending, DetectImageTypeFromReader
\* returns an error (with ImageTypeUnknown) exactly when the stream has fewer
\* than 12 bytes; otherwise it returns what detectFromBytes returns on the
\* first 32 bytes of the stream.
C4_ErrorIffShorterThan12 ==
  ReaderDone =>
    /\ result.err # "nil" <=> Len(data) < 12
    /\ result.err # "nil" => result.type = ImageTypeUnknown
    /\ Len(data) >= 12 => result = detectFromBytes(Take(data, 32))

C4_Witness ==
  /\ ReaderDone
  /\ entry = "reader"
  /\ Len(data) = 12
  /\ rdErr = "EOF"
  /\ result = [type |-> ImageTypeWebP, err |-> "nil"]

\* C5 as stated: every stream of fewer than 12 bytes, the empty one included,
\* fails with the too-small error and not with the read-failure error.
C5_ShortStreamIsTooSmall ==
  ReaderDone /\ Len(data) < 12 => result.err = "small"

\* C6: DetectImageTypeFromReader and DetectImageType take at most 32 bytes
\* from their source, whatever its length and the sizes of its reads, whether
\* they succeed or fail.
C6_AtMost32BytesConsumed == consumed <= 32

C6_Witness ==
  /\ entry = "file"
  /\ spc = "done"
  /\ Len(data) > 32
  /\ consumed = 32
  /\ result.err = "nil"

\* C7 as stated: for each entry point, two inputs with the same first 32 bytes
\* get the same ImageType.
C7_First32BytesDecide ==
  spc = "done" => result.type = result2.type

\* the signature predicates of detectFromBytes that hold of b
Matching(b) ==
  {t \in {"png", "jpeg", "gif", "webp", "avif"} :
     \/ t = "png" /\ IsPNG(b)
     \/ t = "jpeg" /\ IsJPEG(b)
     \/ t = "gif" /\ IsGIF(b)
     \/ t = "webp" /\ IsWebP(b)
     \/ t = "avif" /\ isAVIF(b)}

\* C27 as stated: for every byte sequence at most one of the five signature
\* predicates holds.
C27_AtMostOneSignature ==
  BytesDone => Cardinality(Matching(data)) <= 1

\* C27 amended: at most one of the PNG, JPEG, GIF and WebP predicates holds,
\* and the AVIF predicate never holds together with PNG or GIF; it can hold
\* together with JPEG or with WebP, and then detectFromBytes returns JPEG or
\* WebP, the check evaluated first. With no such overlap the result is the
\* one matching type, or Unknown.
C27_OverlapOnlyWithAVIF ==
  BytesDone =>
    /\ Cardinality(Matching(data) \ {"avif"}) <= 1
    /\ Matching(data) \notin {{"png", "avif"}, {"gif", "avif"}}
    /\ Cardinality(Matching(data)) = 2 =>
         result.type = (CHOOSE t \in Matching(data) : t # "avif")
    /\ Cardinality(Matching(data)) = 1 => result.type \in Matching(data)
    /\ Matching(data) = {} => result.type = "unknown"

C27_Witness ==
  /\ BytesDone
  /\ Matching(data) = {"webp", "avif"}
  /\ result.type = "webp"

\* C28: on a byte sequence of at least 12 bytes isAVIF holds exactly when
\* bytes 4-7 are 'ftyp' and either bytes 8-11 are 'avif' or 'avis', or the
\* sequence has at least 16 bytes and 'avif' or 'avis' occurs at some offset,
\* aligned or not, with all four bytes at or after offset 16; the rule reads
\* neither bytes 0-3 nor bytes 12-15. So with major brand 'mif1' and a
\* compatible brand 'avif' within the first 32 bytes the type is AVIF unless
\* an earlier signature check matches.
C28_AVIFRule ==
  BytesDone /\ Len(data) >= 12 =>
    /\ isAVIF(data) <=>
         /\ OccursAt(data, ftypBox, 4)
         /\ \/ OccursAt(data, Avif, 8)
            \/ OccursAt(data, Avis, 8)
            \/ /\ Len(data) >= 16
               /\ \E off \in 16..(Len(data) - 4) :
                    OccursAt(data, Avif, off) \/ OccursAt(data, Avis, off)
    /\ isAVIF(data) /\ Matching(data) = {"avif"} => result.type = ImageTypeAVIF

C28_Witness ==
  /\ BytesDone
  /\ Len(data) <= 32
  /\ OccursAt(data, Mif1, 8)
  /\ \E off \in 17..19 : IsBrand(data, off)
  /\ \A off \in {16, 20, 24, 28} : ~IsBrand(data, off)
  /\ result.type = ImageTypeAVIF

(***************************************************************************)
(* Properties of the conversions                                           *)
(***************************************************************************)
Done == pc = "done"

\* the call has invoked the operation s
Did(s) == \E i \in 1..Len(steps) : steps[i] = s

FsUnchanged == outDir = fs0.dir /\ outFile = fs0.file

\* C1: a ToWebP / ToAVIF call that reaches the size gate goes on to persist
\* the chosen buffer (MkdirAll, then WriteFile) exactly when the buffer is
\* strictly shorter than the size the initial stat returned, and then a
\* successful call has written exactly that buffer; when the buffer is as long
\* as the input or longer the call returns a FormatError, creates no directory
\* and writes no file. So a file written by a conversion is strictly smaller
\* than its input.
C1_SizeGate ==
  /\ Done /\ Did("gate") =>
       /\ outputBuffer.len >= inputSize =>
            /\ AsFormatError(err)
            /\ FsUnchanged
            /\ ~Did("mkdir") /\ ~Did("write")
       /\ outputBuffer.len < inputSize =>
            /\ Did("mkdir")
            /\ err = Nil <=> Did("write") /\ outFile = outputBuffer
            /\ err # Nil => /\ err[1].msg \in {"failed to create output directory",
                                              "failed to write output file"}
                            /\ outFile.kind # "encoded"
  /\ Did("write") => outputBuffer.len < inputSize
  /\ outFile.kind = "encoded" => err = Nil /\ outFile.len < Len(data)

C1_Witness ==
  /\ Done
  /\ op = "ToAVIF"
  /\ err = Nil
  /\ outFile = outputBuffer
  /\ outFile.len = inputSize - 1

C10_UnsupportedIsFormatError ==
  /\ Done
  /\ imgType \in {"webp", "avif", "unknown"}
  /\ err # Nil
  /\ err[1].msg = "unsupported image format"
  => AsFormatError(err)

\* the innermost error of a chain: what errors.Unwrap reaches last
RootCause(e) == e[Len(e)]

\* C11 as stated: when ToWebP or ToAVIF fails because the input file cannot
\* be stat'ed or opened, the output directory cannot be created or the output
\* file cannot be written, the error wraps the cause and errors.As finds no
\* FormatError in it.
C11_SystemFailuresNotFormatError ==
  Done /\ err # Nil /\ RootCause(err).kind = "os" =>
    /\ err[1].kind = "wrapError"
    /\ ~AsFormatError(err)

\* C12 as stated: when load, auto-rotate, metadata removal or export fails
\* with a runtime fault of the codec library, the error returned is not a
\* FormatError.
C12_CodecFaultNotFormatError ==
  Done /\ err # Nil /\ RootCause(err).kind = "vipsFault" => ~AsFormatError(err)

\* C13: in a ToWebP call on a PNG with TryNearLossless set whose two exports
\* both returned a buffer (the lossless one of length L1, then the
\* near-lossless one of length L2), the buffer handed to the size gate is the
\* near-lossless one when L2 < L1 and the lossless one when L2 >= L1; with
\* TryNearLossless false the call requests the lossless export only.
C13_NearLosslessSelection ==
  op = "ToWebP" /\ imgType = ImageTypePNG =>
    /\ config.TryNearLossless /\ Len(exported) >= 1 /\ exported[1].kind = "encoded" =>
         pc = "export2" \/ Len(exported) = 2
    /\ config.TryNearLossless /\ Len(exported) = 2 /\ exported[2].kind = "encoded" =>
         LET L1 == exported[1].len
             L2 == exported[2].len
         IN /\ exported[1].params.Lossless /\ ~exported[1].params.NearLossless
            /\ exported[2].params.NearLossless
            /\ L2 < L1 => outputBuffer = exported[2]
            /\ L2 >= L1 => outputBuffer = exported[1]
    /\ ~config.TryNearLossless =>
         /\ Len(exported) <= 1
         /\ ~Did("export2")
         /\ \A i \in 1..Len(exported) :
              exported[i].params.Lossless /\ ~exported[i].params.NearLossless

C13_Witness ==
  /\ Done
  /\ err = Nil
  /\ op = "ToWebP"
  /\ imgType = ImageTypePNG
  /\ Len(exported) = 2
  /\ exported[2].len < exported[1].len
  /\ outFile = exported[2]

\* C14: the first export a call requests has, for every config, the mode of
\* its pair: JPEG to WebP lossy with Quality = config.JPEGToWebP.Quality; PNG
\* to WebP lossless; GIF to WebP lossless on the image loaded with all frames;
\* JPEG to AVIF lossy with Quality = config.JPEGToAVIF.CQ; PNG to AVIF
\* lossless with the same parameters whatever Quality and CQ are.
C14_EncodingModePerPair ==
  Len(exported) >= 1 =>
    LET params == exported[1].params IN
      /\ op = "ToWebP" => params.target = "webp"
      /\ op = "ToAVIF" => params.target = "avif"
      /\ op = "ToWebP" /\ imgType = "jpeg" =>
           ~params.Lossless /\ ~params.NearLossless /\ params.Quality = config.Quality
      /\ op = "ToWebP" /\ imgType = "png" => params.Lossless /\ ~params.NearLossless
      /\ op = "ToWebP" /\ imgType = "gif" =>
           /\ params.Lossless /\ ~params.NearLossless
           /\ params.pages = "all"
           /\ \E i \in 1..Len(steps) - 1 : steps[i] = "loadanim" /\ steps[i + 1] = "export"
      /\ imgType # "gif" => params.pages = "first" /\ ~Did("loadanim")
      /\ op = "ToAVIF" /\ imgType = "jpeg" =>
           ~params.Lossless /\ params.Quality = config.CQ
      /\ op = "ToAVIF" /\ imgType = "png" =>
           params.Lossless /\ params.Quality = AvifDefaultQuality
      /\ imgType \in {"jpeg", "png", "gif"}

C14_Witness ==
  /\ Done
  /\ err = Nil
  /\ op = "ToWebP"
  /\ imgType = "jpeg"
  /\ config.Quality = 50
  /\ outFile.kind = "encoded"
  /\ outFile.params.Quality = 50
  /\ ~outFile.params.Lossless

\* C15 as stated: the output written by any conversion, to WebP or to AVIF,
\* carries no EXIF, no XMP and no ICC profile.
C15_OutputHasNoMetadata ==
  outFile.kind = "encoded" => outFile.meta = {}

\* C16: in every ToAVIF call, the JPEG ones included, AutoRotate has been
\* invoked and has returned without error before RemoveMetadata is invoked
\* and before ExportAvif is invoked; and a call whose sniffed type is JPEG
\* that exports has done all three in that order.
C16_RotateBeforeStripAndExport ==
  op = "ToAVIF" =>
    /\ \A i \in 1..Len(steps) :
         steps[i] \in {"rmmeta", "export"} =>
           \E j \in 1..(i - 1) : steps[j] = "rotate"
    /\ imgType = "jpeg" /\ Did("export") =>
         \E i, j, k \in 1..Len(steps) :
           /\ i < j /\ j < k
           /\ steps[i] = "rotate" /\ steps[j] = "rmmeta" /\ steps[k] = "export"

C16_Witness ==
  /\ Done
  /\ err = Nil
  /\ op = "ToAVIF"
  /\ imgType = "jpeg"
  /\ steps = <<"stat", "load", "rotate", "rmmeta", "sniff", "export", "gate",
               "mkdir", "write">>

\* C17: at every point of a ToWebP / ToAVIF call the stored config is what
\* construction made of the given one: Quality is 80 where 0 was given and the
\* given value otherwise, CQ is 25 where 0 was given and the given value
\* otherwise, TryNearLossless is as given; Quality and CQ are never 0.
C17_DefaultsAtConstructionOnly ==
  /\ config.Quality = (IF given.Quality = 0 THEN 80 ELSE given.Quality)
  /\ config.CQ = (IF given.CQ = 0 THEN 25 ELSE given.CQ)
  /\ config.TryNearLossless = given.TryNearLossless
  /\ config.Quality # 0
  /\ config.CQ # 0

C17_Witness ==
  /\ Done
  /\ err = Nil
  /\ given = [Quality |-> 0, TryNearLossless |-> TRUE, CQ |-> 30]
  /\ config = [Quality |-> 80, TryNearLossless |-> TRUE, CQ |-> 30]
  /\ Did("export2")

\* the FormatError of the chain e: what errors.As stores in its target
FormatErrorIn(e) ==
  LET i == CHOOSE k \in 1..Len(e) :
             e[k].kind = "FormatError" /\ \A j \in 1..(k - 1) : e[j].kind # "FormatError"
  IN SubSeq(e, i, Len(e))

\* the FormatError fe was built from cause
BuiltFrom(fe, cause) ==
  /\ fe[1].kind = "FormatError"
  /\ Unwrap(fe) = cause
  /\ ErrorsIs(fe, cause)
  /\ ErrorMessage(fe) = <<"format error">> \o ErrorMessage(cause)

LastStep == IF steps = <<>> THEN "none" ELSE steps[Len(steps)]

\* C20: wherever ToWebP / ToAVIF return an error built with NewFormatError
\* (size gate and GIF to AVIF unwrapped; load, auto-rotate, animated load and
\* export wrapped by fmt.Errorf with %w), errors.As finds the FormatError,
\* its Unwrap is the cause it was built from, errors.Is matches that cause
\* from the returned error, and its message is "format error: " followed by
\* the message of the cause.
C20_FormatErrorDistinguishable ==
  Done /\ err # Nil =>
    /\ LastStep = "gate" =>
         /\ AsFormatError(err)
         /\ err = FormatErrorIn(err)
         /\ BuiltFrom(err, <<[kind |-> "errorString",
                              msg |-> "output file size is not smaller than input"]>>)
    /\ LastStep = "sniff" /\ imgType = "gif" =>
         /\ AsFormatError(err)
         /\ err = FormatErrorIn(err)
         /\ BuiltFrom(err, <<[kind |-> "errorString",
                              msg |-> "GIF to AVIF conversion is not supported"]>>)
    /\ LastStep \in {"load", "rotate", "loadanim", "export"} =>
         /\ AsFormatError(err)
         /\ err[1].kind = "wrapError"
         /\ FormatErrorIn(err) = Unwrap(err)
         /\ RootCause(err).kind \in {"os", "vips", "vipsFault"}
         /\ LET cause == <<RootCause(err)>>
            IN /\ BuiltFrom(FormatErrorIn(err), cause)
               /\ ErrorsIs(err, cause)
               /\ ErrorMessage(err) =
                    <<err[1].msg, "format error">> \o ErrorMessage(cause)

C20_Witness ==
  /\ Done
  /\ LastStep = "export"
  /\ AsFormatError(err)
  /\ ErrorMessage(err) = <<"failed to export avif", "format error", "export">>
  /\ ErrorsIs(err, <<[kind |-> "vips", msg |-> "export"]>>)

\* the operations of the codec library
CodecSteps == {"load", "rotate", "rmmeta", "loadanim", "export", "export2"}

\* C25 as stated: in every ToWebP / ToAVIF call the steps come in the order
\* stat, sniff, policy, codec operations, size gate, persist: no codec
\* operation is invoked before the format has been sniffed, and a call whose
\* source type is unsupported, or GIF for ToAVIF, invokes no codec operation.
C25_SniffBeforeCodec ==
  /\ \A i \in 1..Len(steps) :
       /\ steps[i] \in CodecSteps => \E j \in 1..(i - 1) : steps[j] = "sniff"
       /\ steps[i] = "sniff" => \E j \in 1..(i - 1) : steps[j] = "stat"
       /\ steps[i] = "gate" => \E j \in 1..(i - 1) : steps[j] = "export"
       /\ steps[i] \in {"mkdir", "write"} => \E j \in 1..(i - 1) : steps[j] = "gate"
  /\ Done /\ (~IsSupported(imgType) \/ (op = "ToAVIF" /\ imgType = "gif")) =>
       \A i \in 1..Len(steps) : steps[i] \notin CodecSteps

\* C26 as stated: whenever a step of a ToWebP / ToAVIF call fails, the
\* near-lossless export included, the call ends with a non-nil error that
\* wraps the failure, and it takes no later step.
C26_NoErrorSwallowed ==
  \A i \in 1..Len(exported) :
    exported[i].kind = "failed" =>
      /\ Done
      /\ err # Nil
      /\ RootCause(err).kind \in {"vips", "vipsFault"}
      /\ LastStep \in {"export", "export2"}

\* C29: MkdirAll is invoked only after the size gate has let a strictly
\* smaller buffer pass; until then the output directory and the output file
\* are as they were when the call began, and every call that has failed at
\* stat, load, rotate, metadata removal, sniffing, the type checks, the
\* animated load, the export or the size gate has left them so.
C29_FailedCallLeavesFileSystem ==
  /\ Did("mkdir") =>
       /\ \E i, j \in 1..Len(steps) : i < j /\ steps[i] = "gate" /\ steps[j] = "mkdir"
       /\ outputBuffer.len < inputSize
  /\ ~Did("mkdir") => FsUnchanged
  /\ Done /\ err # Nil /\ LastStep \notin {"mkdir", "write"} =>
       /\ LastStep \in {"stat", "load", "rotate", "rmmeta", "sniff", "loadanim",
                        "export", "gate"}
       /\ FsUnchanged
       /\ ~Did("mkdir") /\ ~Did("write")

C29_Witness ==
  /\ Done
  /\ LastStep = "gate"
  /\ AsFormatError(err)
  /\ fs0.file = OldFile
  /\ outFile = OldFile
  /\ outputBuffer.len = inputSize

\* C30 as stated: the decision of ToWebP / ToAVIF is that of the content
\* type, whatever the file is named: the call encodes exactly when the type
\* sniffed from the bytes is supported for the target, with the mode of that
\* type, and rejects by type exactly when it is not.
C30_DecisionByContentOnly ==
  LET T == DetectImageTypeFromBytes(data)
      allowed == IF op = "ToWebP" THEN T \in {"jpeg", "png", "gif"}
                 ELSE T \in {"jpeg", "png"}
  IN /\ Len(exported) >= 1 =>
          /\ allowed
          /\ exported[1].params.Lossless = (T # "jpeg")
     /\ Done /\ err # Nil /\ LastStep \in {"sniff", "ext"}
          /\ RootCause(err).kind = "errorString" =>
          /\ ~allowed
          /\ AsFormatError(err) = (T = "gif")

(***************************************************************************)
(* Properties of the process run                                           *)
(***************************************************************************)
\* C19 as stated: in every process run, of a program importing the library,
\* of the command and of the tests, vips.Startup has been invoked exactly
\* once when a conversion runs, and exactly once, with vips.Shutdown exactly
\* once, when the process ends.
C19_StartupOnceShutdownOnce ==
  /\ ncalls > 0 => startups = 1
  /\ phase = "exit" => startups = 1 /\ shutdowns = 1

(***************************************************************************)
(* Properties of concurrent calls                                          *)
(***************************************************************************)
\* the local state of call c
Call(c) == IF c = running THEN Locals ELSE parked

\* the file at the output path of call c
FileAt(c) == IF c = running \/ SamePath THEN outFile ELSE parked.outFile

\* what a call that runs alone on a fresh output path returns and leaves:
\* success exactly with the buffer it chose written, a failure before
\* WriteFile with no file, a failed WriteFile with no or a truncated file; the
\* buffer is encoded with the parameters of its own pair and of cfg
AloneOutcome(l, file, cfg) ==
  LET last == l.steps[Len(l.steps)] IN
    /\ l.err = Nil =>
         /\ last = "write"
         /\ file = l.outputBuffer
         /\ l.outputBuffer.kind = "encoded"
         /\ l.outputBuffer.len < Len(l.data)
    /\ l.err # Nil /\ last # "write" => file = NoFile
    /\ l.err # Nil /\ last = "write" => file \in {NoFile, TruncatedFile}
    /\ l.outputBuffer.kind = "encoded" =>
         /\ l.outputBuffer.params.target = (IF l.op = "ToWebP" THEN "webp" ELSE "avif")
         /\ l.imgType = "jpeg" =>
              l.outputBuffer.params.Quality =
                (IF l.op = "ToWebP" THEN cfg.Quality ELSE cfg.CQ)
         /\ l.outputBuffer.params.NearLossless =>
              cfg.TryNearLossless /\ l.imgType = "png" /\ l.op = "ToWebP"

\* C18: in every interleaving of two concurrent ToWebP / ToAVIF calls on one
\* Converter with distinct output paths, the Converter's config stays what
\* NewConverter made it, and each finished call has returned and left at its
\* output path what it returns and leaves when it runs alone, whatever the
\* other call does before, meanwhile and after.
C18_ConcurrentCallsIndependent ==
  parked # NoCall =>
    /\ config = [Quality |-> IF given.Quality = 0 THEN 80 ELSE given.Quality,
                 TryNearLossless |-> given.TryNearLossless,
                 CQ |-> IF given.CQ = 0 THEN 25 ELSE given.CQ]
    /\ \A c \in {1, 2} :
         Call(c).pc = "done" => AloneOutcome(Call(c), FileAt(c), config)

C18_Witness ==
  /\ running = 2
  /\ pc = "done"
  /\ err = Nil
  /\ outFile = outputBuffer
  /\ outDir
  /\ parked.pc = "write"
  /\ parked.op = "ToWebP"
  /\ parked.outFile = NoFile
  /\ parked.outputBuffer # outputBuffer

(***************************************************************************)
(* Properties of the command line program                                  *)
(***************************************************************************)
\* the flag of the run is within the range of its command
ValidFlag == IF cli.cmd = "webp" THEN cli.value \in 1..100 ELSE cli.value \in 1..63

\* the core was not entered: no Converter constructed, no ToWebP / ToAVIF
CoreUntouched == ~cli.built /\ op = "none" /\ steps = <<>> /\ given = ZeroConfig

\* C21: runWebP with a quality outside [1, 100] and runAVIF with a CQ
\* outside [1, 63] return the error naming the bound, without looking at the
\* input file and without constructing a Converter or calling the
\* conversion; with the flag in range and the input file missing they return
\* 'input file not found', again without entering the core; the core is
\* entered only after both checks passed.
C21_ValidationPrecedesCore ==
  /\ cli.cpc # "validate" /\ ~ValidFlag =>
       /\ cli.runErr = (IF cli.cmd = "webp"
                          THEN ErrorfText("quality must be between 1 and 100")
                          ELSE ErrorfText("CQ must be between 1 and 63"))
       /\ cli.inStat = "none"
       /\ CoreUntouched
  /\ cli.inStat = "notexist" =>
       /\ ValidFlag
       /\ cli.runErr = ErrorfText("input file not found")
       /\ CoreUntouched
  /\ cli.built => ValidFlag /\ cli.inStat = "ok"

C21_Witness ==
  /\ cli.cmd # "none"
  /\ cli.cpc = "exited"
  /\ cli.code = 1
  /\ \/ cli.cmd = "avif" /\ cli.value = 64
     \/ cli.cmd = "webp" /\ cli.value = 0

\* the run is over and its conversion returned e
Exited == cli.cmd # "none" /\ cli.cpc = "exited"

\* every error of ToWebP / ToAVIF makes the run return an error and exit
\* with 1, and a FormatError stays one errors.As finds
ErrorsReachExit ==
  Exited /\ cli.built /\ err # Nil =>
    /\ cli.runErr # Nil
    /\ cli.code = 1
    /\ cli.errOut # <<>>
    /\ AsFormatError(err) => AsFormatError(cli.runErr) /\ cli.runErr[1].kind = "FormatError"
    /\ ~AsFormatError(err) => ~AsFormatError(cli.runErr) /\ Unwrap(cli.runErr) = err

\* C22 as stated: the run exits with 0 exactly when the conversion
\* succeeded, and every error of the conversion reaches the exit.
C22_ExitZeroIffConversionSucceeded ==
  /\ Exited => (cli.code = 0 <=> (cli.built /\ Done /\ err = Nil))
  /\ ErrorsReachExit

\* C22: the run exits with 0 exactly when the conversion succeeded and
\* os.Stat of the output file succeeded after it, and with 1 otherwise;
\* every error of the conversion reaches the exit, a FormatError as the
\* *FormatError itself, any other wrapped with %w.
C22_ExitZeroIffConvertedAndStated ==
  /\ Exited =>
       /\ cli.code \in {0, 1}
       /\ cli.code = 0 <=> (cli.built /\ Done /\ err = Nil /\ cli.outStat = "ok")
       /\ cli.code = 0 <=> cli.runErr = Nil
  /\ Exited /\ cli.outStat = "failed" =>
       /\ err = Nil
       /\ cli.code = 1
       /\ RootCause(cli.runErr).kind = "os"
       /\ ~AsFormatError(cli.runErr)
  /\ ErrorsReachExit

C22_Witness ==
  /\ Exited
  /\ cli.built
  /\ AsFormatError(err)
  /\ cli.code = 1

\* the ConverterConfig of a run, from the flags other than --verbose and
\* --quiet
RefConfig ==
  IF cli.cmd = "webp"
    THEN [Quality |-> cli.value, TryNearLossless |-> cli.tryNL, CQ |-> 0]
    ELSE [Quality |-> 0, TryNearLossless |-> FALSE, CQ |-> cli.value]

\* the error of a run, from the flags other than --verbose and --quiet, the
\* answers of the file system and the error of the conversion
RefRunErr ==
  IF ~ValidFlag
    THEN ErrorfText(IF cli.cmd = "webp" THEN "quality must be between 1 and 100"
                    ELSE "CQ must be between 1 and 63")
  ELSE IF cli.inStat = "notexist" THEN ErrorfText("input file not found")
  ELSE IF cli.inStat = "denied"
    THEN Errorf("failed to access input file", OSError("stat"))
  ELSE IF err # Nil
    THEN (IF AsFormatError(err) THEN FormatErrorIn(err)
          ELSE Errorf("conversion failed", err))
  ELSE IF cli.outStat = "failed"
    THEN Errorf("failed to stat output file", OSError("stat"))
  ELSE Nil

\* C23: what a run returns, the ConverterConfig it builds and the file it
\* leaves at the output path are those of its other inputs (command, value
\* of --quality / --cq, --try-near-lossless, the answers of the file system
\* and of the codec), the same whatever --verbose and --quiet are.
C23_VerbosityDoesNotChangeBehaviour ==
  /\ cli.built =>
       /\ given = RefConfig
       /\ config = NewConverter(RefConfig)
       /\ op = (IF cli.cmd = "webp" THEN "ToWebP" ELSE "ToAVIF")
  /\ cli.built /\ Done => AloneOutcome(Locals, outFile, NewConverter(RefConfig))
  /\ ~cli.built => outFile = NoFile /\ steps = <<>> /\ given = ZeroConfig
  /\ cli.cpc \in {"exit", "exited"} => cli.runErr = RefRunErr
  /\ cli.cpc = "exited" => cli.code = (IF RefRunErr = Nil THEN 0 ELSE 1)

C23_Witness ==
  /\ Exited
  /\ cli.verbose
  /\ ~cli.quiet
  /\ cli.cmd = "webp"
  /\ ~cli.tryNL
  /\ err = Nil
  /\ outFile = outputBuffer
  /\ cli.code = 0

\* C24 as stated: a run with --quiet writes nothing to the standard output,
\* no progress, success, rejection or [INFO] line, on any path and whatever
\* --verbose is; only the error line of main goes out.
C24_QuietPrintsNothing ==
  cli.cmd # "none" /\ cli.quiet => cli.out = <<>>

====
